---- MODULE Spec2Model ----
(***************************************************************************)
(* The credential vault of kinrou_plus: the popup's CredentialManager      *)
(* (save / get / getSavedCodes / exists / clear over chrome.storage.local  *)
(* and chrome.storage.session), the service worker's read-only copies of   *)
(* the readers behind the sender gate, the content script's main() on a    *)
(* page of the attendance site, and the host that ends a session.          *)
(*                                                                         *)
(* A JS string is a sequence: identifier codes and URLs are sequences of   *)
(* one-character strings, a password is a sequence of UTF-16 code units    *)
(* (numbers), because TextEncoder / TextDecoder act on code units.         *)
(* A storage area is a function from the keys it holds to their values;    *)
(* reading a key it does not hold gives undefined in the code.             *)
(***************************************************************************)
EXTENDS Integers, Sequences, FiniteSets, Bags, TLC

\* The number of operations that can be in flight at the same time: calls
\* of CredentialManager made by extension pages and message handlers of the
\* service worker, each suspended at one of its awaits.
MaxInFlight == 2

-----------------------------------------------------------------------------
(* Storage keys *)

STORAGE_KEY_COMPANY == "kinrou_company_code"
STORAGE_KEY_EMPLOYEE == "kinrou_employee_code"
STORAGE_KEY_PASSWORD == "kinrou_encrypted_password"
STORAGE_KEY_IV == "kinrou_password_iv"
SESSION_KEY_CRYPTO == "kinrou_crypto_key"

\* The service worker's own copies of the five key names.
BG_STORAGE_KEY_COMPANY == "kinrou_company_code"
BG_STORAGE_KEY_EMPLOYEE == "kinrou_employee_code"
BG_STORAGE_KEY_PASSWORD == "kinrou_encrypted_password"
BG_STORAGE_KEY_IV == "kinrou_password_iv"
BG_SESSION_KEY_CRYPTO == "kinrou_crypto_key"

-----------------------------------------------------------------------------
(* chrome.storage: get / set / remove on an area *)

\* area.get(keys): an object with the requested keys the area holds.
StorageGet(area, keys) == [k \in (keys \cap DOMAIN area) |-> area[k]]

\* area.set(items): the items replace or add to what the area holds.
StorageSet(area, items) ==
  [k \in (DOMAIN area \cup DOMAIN items) |->
     IF k \in DOMAIN items THEN items[k] ELSE area[k]]

\* area.remove(keys)
StorageRemove(area, keys) == [k \in (DOMAIN area \ keys) |-> area[k]]

\* !obj[k] for a string-valued property: undefined and "" are falsy.
FalsyString(obj, k) == k \notin DOMAIN obj \/ obj[k] = <<>>

\* !obj[k] for an array-valued property: only undefined is falsy
\* (an array, even an empty one, is truthy).
FalsyArray(obj, k) == k \notin DOMAIN obj

-----------------------------------------------------------------------------
(* Validation *)

Digits == {"0", "1", "2", "3", "4", "5", "6", "7", "8", "9"}

MaxCompanyDigits == 5
MaxEmployeeDigits == 10

\* /^\d+$/.test(companyCode): the check without its upper bound.
isValidCompanyCodeUnbounded(companyCode) ==
  /\ Len(companyCode) >= 1
  /\ \A i \in 1..Len(companyCode) : companyCode[i] \in Digits

\* /^\d{1,5}$/.test(companyCode)
isValidCompanyCode(companyCode) ==
  /\ Len(companyCode) >= 1
  /\ Len(companyCode) <= MaxCompanyDigits
  /\ \A i \in 1..Len(companyCode) : companyCode[i] \in Digits

\* /^\d{1,10}$/.test(employeeCode)
isValidEmployeeCode(employeeCode) ==
  /\ Len(employeeCode) >= 1
  /\ Len(employeeCode) <= MaxEmployeeDigits
  /\ \A i \in 1..Len(employeeCode) : employeeCode[i] \in Digits

-----------------------------------------------------------------------------
(* TextEncoder / TextDecoder *)

\* UTF-16 surrogate ranges, U+FFFD (replacement character), U+FEFF (byte
\* order mark).
HighSurrogateFirst == 55296
HighSurrogateLast == 56319
LowSurrogateFirst == 56320
LowSurrogateLast == 57343
ReplacementChar == 65533
ByteOrderMark == 65279

IsHighSurrogate(u) == u >= HighSurrogateFirst /\ u <= HighSurrogateLast
IsLowSurrogate(u) == u >= LowSurrogateFirst /\ u <= LowSurrogateLast

Tail2(s) == SubSeq(s, 3, Len(s))

\* The conversion of a JS string to scalar values that encode() starts with:
\* a surrogate pair is one code point, a lone surrogate becomes U+FFFD.
RECURSIVE ToScalarValues(_)
ToScalarValues(s) ==
  IF s = <<>> THEN <<>>
  ELSE IF IsHighSurrogate(s[1]) /\ Len(s) >= 2 /\ IsLowSurrogate(s[2])
    THEN <<65536 + (s[1] - HighSurrogateFirst) * 1024 + (s[2] - LowSurrogateFirst)>>
           \o ToScalarValues(Tail2(s))
  ELSE IF IsHighSurrogate(s[1]) \/ IsLowSurrogate(s[1])
    THEN <<ReplacementChar>> \o ToScalarValues(Tail(s))
  ELSE <<s[1]>> \o ToScalarValues(Tail(s))

\* The UTF-8 bytes of one scalar value.
Utf8Bytes(c) ==
  IF c < 128 THEN <<c>>
  ELSE IF c < 2048 THEN <<192 + (c \div 64), 128 + (c % 64)>>
  ELSE IF c < 65536
    THEN <<224 + (c \div 4096), 128 + ((c \div 64) % 64), 128 + (c % 64)>>
  ELSE <<240 + (c \div 262144), 128 + ((c \div 4096) % 64),
         128 + ((c \div 64) % 64), 128 + (c % 64)>>

RECURSIVE Utf8Encode(_)
Utf8Encode(cs) ==
  IF cs = <<>> THEN <<>> ELSE Utf8Bytes(cs[1]) \o Utf8Encode(Tail(cs))

\* new TextEncoder().encode(password)
TextEncode(str) == Utf8Encode(ToScalarValues(str))

IsContinuation(bs, i) == i <= Len(bs) /\ bs[i] >= 128 /\ bs[i] < 192

\* The UTF-8 decoder: a sequence that is not well formed gives U+FFFD.
RECURSIVE Utf8Decode(_)
Utf8Decode(bs) ==
  IF bs = <<>> THEN <<>>
  ELSE IF bs[1] < 128 THEN <<bs[1]>> \o Utf8Decode(Tail(bs))
  ELSE IF bs[1] >= 194 /\ bs[1] < 224 /\ IsContinuation(bs, 2)
    THEN <<(bs[1] - 192) * 64 + (bs[2] - 128)>> \o Utf8Decode(SubSeq(bs, 3, Len(bs)))
  ELSE IF bs[1] >= 224 /\ bs[1] < 240 /\ IsContinuation(bs, 2) /\ IsContinuation(bs, 3)
    THEN <<(bs[1] - 224) * 4096 + (bs[2] - 128) * 64 + (bs[3] - 128)>>
           \o Utf8Decode(SubSeq(bs, 4, Len(bs)))
  ELSE IF bs[1] >= 240 /\ bs[1] < 245 /\ IsContinuation(bs, 2)
          /\ IsContinuation(bs, 3) /\ IsContinuation(bs, 4)
    THEN <<(bs[1] - 240) * 262144 + (bs[2] - 128) * 4096
             + (bs[3] - 128) * 64 + (bs[4] - 128)>>
           \o Utf8Decode(SubSeq(bs, 5, Len(bs)))
  ELSE <<ReplacementChar>> \o Utf8Decode(Tail(bs))

\* Scalar values back to UTF-16 code units.
RECURSIVE ToCodeUnits(_)
ToCodeUnits(cs) ==
  IF cs = <<>> THEN <<>>
  ELSE IF cs[1] >= 65536
    THEN <<HighSurrogateFirst + ((cs[1] - 65536) \div 1024),
           LowSurrogateFirst + ((cs[1] - 65536) % 1024)>> \o ToCodeUnits(Tail(cs))
  ELSE <<cs[1]>> \o ToCodeUnits(Tail(cs))

\* A decoder made with no options has ignoreBOM false: a byte order mark
\* at the start of the input is not part of the output.
StripBOM(cs) == IF cs # <<>> /\ cs[1] = ByteOrderMark THEN Tail(cs) ELSE cs

\* new TextDecoder().decode(decrypted)
TextDecode(bytes) == ToCodeUnits(StripBOM(Utf8Decode(bytes)))

-----------------------------------------------------------------------------
(* Web Crypto: AES-GCM with a 256-bit key and a 96-bit nonce *)

\* A key is named by a number; two generated keys never coincide.  The raw
\* bytes exportKey gives, as the array the session store holds, and the
\* key importKey makes of them.
ExportKey(key) == [raw |-> key]
ImportKey(storedKey) == storedKey.raw

\* crypto.subtle.encrypt: ciphertext and tag, which only the same key and
\* nonce open.
AesGcmEncrypt(data, key, iv) == [key |-> key, iv |-> iv, data |-> data]

\* crypto.subtle.decrypt rejects (OperationError) unless key and nonce are
\* those of the encryption.
AesGcmOpens(encryptedData, iv, key) ==
  encryptedData.key = key /\ encryptedData.iv = iv

\* encryptPassword(password, key) with the nonce getRandomValues gave.
encryptPassword(password, key, iv) ==
  [encrypted |-> AesGcmEncrypt(TextEncode(password), key, iv), iv |-> iv]

\* decryptPassword(encryptedData, iv, key), where it does not throw.
decryptPassword(encryptedData, iv, key) == TextDecode(encryptedData.data)

\* A decryptPassword whose decoder keeps a byte order mark: what the
\* service worker's copy would be with new TextDecoder('utf-8', {ignoreBOM:
\* true}).
bgDecryptPasswordKeepingBOM(encryptedData, iv, key) ==
  ToCodeUnits(Utf8Decode(encryptedData.data))

\* The service worker's copy of decryptPassword.
bgDecryptPassword(encryptedData, iv, key) == TextDecode(encryptedData.data)

-----------------------------------------------------------------------------
(* Values the operations return *)

Null == [type |-> "null"]
Boolean(b) == [type |-> "boolean", value |-> b]
Credentials(companyCode, employeeCode, password) ==
  [type |-> "credentials", companyCode |-> companyCode,
   employeeCode |-> employeeCode, password |-> password]
Codes(companyCode, employeeCode) ==
  [type |-> "codes", companyCode |-> companyCode, employeeCode |-> employeeCode]
NoValue == [type |-> "none"]

\* getCryptoKey's null.
NullKey == 0

-----------------------------------------------------------------------------
(* Inputs *)

\* What a caller passes to save(companyCode, employeeCode, password).
\* The passwords: "pw", and U+FEFF followed by "s".
ShortCodesSave ==
  [companyCode |-> <<"7">>, employeeCode |-> <<"4", "2">>, password |-> <<112, 119>>]
LongCodesSave ==
  [companyCode |-> <<"1", "2", "3", "4", "5">>,
   employeeCode |-> <<"1", "2", "3", "4", "5", "6", "7", "8", "9", "0">>,
   password |-> <<65279, 115>>]
SixDigitCompanySave ==
  [companyCode |-> <<"1", "2", "3", "4", "5", "6">>, employeeCode |-> <<"4", "2">>,
   password |-> <<112, 119>>]

SaveInputs ==
  { ShortCodesSave,
    LongCodesSave,
    SixDigitCompanySave,
    [companyCode |-> <<"1", "2", "a">>, employeeCode |-> <<"4", "2">>,
     password |-> <<112, 119>>],
    [companyCode |-> <<>>, employeeCode |-> <<"4", "2">>,
     password |-> <<112, 119>>],
    [companyCode |-> <<"7">>,
     employeeCode |-> <<"1", "2", "3", "4", "5", "6", "7", "8", "9", "0", "1">>,
     password |-> <<112, 119>>],
    [companyCode |-> <<"7">>, employeeCode |-> <<"4", "x">>,
     password |-> <<112, 119>>],
    [companyCode |-> <<"7">>, employeeCode |-> <<>>,
     password |-> <<112, 119>>],
    [companyCode |-> <<"7">>, employeeCode |-> <<"4", "2">>,
     password |-> <<>>] }

NoArgs == [companyCode |-> <<>>, employeeCode |-> <<>>, password |-> <<>>]

\* chrome.runtime.id, and the id of some other extension.
RuntimeId == "kinrou_plus"
OtherId == "other_extension"

\* 'https://kinrouap1.hr44.jp/'
TrustedPrefix ==
  <<"h", "t", "t", "p", "s", ":", "/", "/", "k", "i", "n", "r", "o", "u", "a", "p", "1", ".", "h", "r", "4", "4", ".", "j", "p", "/">>

\* The login page, the trusted prefix itself, a host that only begins like
\* the trusted one, the trusted host over http, and the trusted prefix cut
\* short.
LoginUrl == TrustedPrefix \o <<"k", "i", "n", "r", "o", "u", "/", "k", "o", "j", "i", "n", "/">>
LookalikeUrl ==
  <<"h", "t", "t", "p", "s", ":", "/", "/", "k", "i", "n", "r", "o", "u", "a", "p", "1", ".", "h", "r", "4", "4", ".", "j", "p", ".", "e", "v", "i", "l", ".", "e", "x", "a", "m", "p", "l", "e", "/">>
HttpUrl ==
  <<"h", "t", "t", "p", ":", "/", "/", "k", "i", "n", "r", "o", "u", "a", "p", "1", ".", "h", "r", "4", "4", ".", "j", "p", "/">>
ShortUrl ==
  <<"h", "t", "t", "p", "s", ":", "/", "/", "k", "i", "n", "r", "o", "u", "a", "p", "1", ".", "h", "r", "4", "4", ".", "j", "p">>

\* The address of the extension's own settings page (the popup).
PopupUrl ==
  <<"c", "h", "r", "o", "m", "e", "-", "e", "x", "t", "e", "n", "s", "i", "o", "n", ":", "/", "/", "k", "i", "n", "r", "o", "u", "_", "p", "l", "u", "s", "/", "p", "o", "p", "u", "p", ".", "h", "t", "m", "l">>

\* The sender the host makes for a message that the extension's settings
\* page sends: the extension's id and the address of that page.
PopupSender == [id |-> RuntimeId, url |-> PopupUrl]

\* A chrome.runtime.MessageSender: its id and, when the message comes from
\* a page or frame, its url.
LoginSender == [id |-> RuntimeId, url |-> LoginUrl]

Senders ==
  { [id |-> RuntimeId],
    PopupSender,
    LoginSender,
    [id |-> RuntimeId, url |-> TrustedPrefix],
    [id |-> RuntimeId, url |-> LookalikeUrl],
    [id |-> RuntimeId, url |-> HttpUrl],
    [id |-> RuntimeId, url |-> ShortUrl],
    [id |-> OtherId],
    [id |-> OtherId, url |-> LoginUrl] }

MessageTypes == {"GET_CREDENTIALS", "GET_SAVED_CODES", "PING"}

-----------------------------------------------------------------------------
(* State *)

VARIABLES
  session,  \* chrome.storage.session
  local,    \* chrome.storage.local
  running,  \* the bag of operations in flight, each at one of its awaits
  event,    \* what the last step returned or answered, if it did
  saved,    \* the arguments of the last save whose write is in local
  intact    \* since that write no clear() has removed anything and the
            \* session has not ended

vars == <<session, local, running, event, saved, intact>>

Empty == [k \in {} |-> 0]

\* A function with the one key k.
Item(k, v) == [x \in {k} |-> v]

\* An operation in flight: where it waits, the arguments of a save, the key
\* it holds.
Op(pc, args, key) == [pc |-> pc, args |-> args, key |-> key]

Ops == BagToSet(running)
Start(o) == running (+) SetToBag({o})
Finish(o) == running (-) SetToBag({o})
Becomes(o, n) == (running (-) SetToBag({o})) (+) SetToBag({n})
HasRoom == BagCardinality(running) < MaxInFlight

\* reads: the storage areas the operation read.  threw: one of its store or
\* crypto calls rejected.
NoEvent == [op |-> "", val |-> NoValue, reads |-> {}, threw |-> FALSE]

Returned(op, val, reads) == [op |-> op, val |-> val, reads |-> reads, threw |-> FALSE]

LocalKeys ==
  {STORAGE_KEY_COMPANY, STORAGE_KEY_EMPLOYEE, STORAGE_KEY_PASSWORD, STORAGE_KEY_IV}

\* The keys in use: held by an operation, resident in the session store, or
\* the key of the stored ciphertext.
UsedKeys ==
  {o.key : o \in Ops}
    \cup {session[k].raw : k \in DOMAIN session}
    \cup {local[k].key : k \in DOMAIN local \cap {STORAGE_KEY_PASSWORD}}

\* The keys generateKey can have made, and the nonces getRandomValues gives.
KeyNames == 1..(MaxInFlight + 3)
Nonces == {1, 2}

\* crypto.subtle.generateKey: a key that is none of the keys in use.
GeneratedKey ==
  CHOOSE k \in 1..(MaxInFlight + 3) :
    k \notin UsedKeys /\ \A j \in 1..(k - 1) : j \in UsedKeys

\* crypto.getRandomValues(new Uint8Array(12)): a nonce that is not the
\* stored one.
GeneratedIv ==
  IF STORAGE_KEY_IV \in DOMAIN local /\ local[STORAGE_KEY_IV] = 1 THEN 2 ELSE 1

Init ==
  /\ session = Empty
  /\ local = Empty
  /\ running = EmptyBag
  /\ event = NoEvent
  /\ saved = NoArgs
  /\ intact = FALSE

-----------------------------------------------------------------------------
(* CredentialManager.save *)

\* The three checks save makes before it touches a store.
saveAccepts(companyCode, employeeCode, password) ==
  /\ isValidCompanyCode(companyCode)
  /\ isValidEmployeeCode(employeeCode)
  /\ password # <<>>

\* getOrCreateCryptoKey, when session.get answers: a stored key is
\* imported, and with none stored a key is to be generated.
getOrCreateCryptoKeyRead(args) ==
  LET result == StorageGet(session, {SESSION_KEY_CRYPTO}) IN
  IF ~FalsyArray(result, SESSION_KEY_CRYPTO)
    THEN Op("save_encrypt", args, ImportKey(result[SESSION_KEY_CRYPTO]))
    ELSE Op("save_generate", args, 0)

\* save(companyCode, employeeCode, password): a rejected call returns false
\* and touches nothing; an accepted one reads the session store for the key.
SaveCall(in) ==
  /\ IF saveAccepts(in.companyCode, in.employeeCode, in.password)
       THEN /\ HasRoom
            /\ running' = Start(getOrCreateCryptoKeyRead(in))
            /\ event' = NoEvent
       ELSE /\ running' = running
            /\ event' = Returned("save", Boolean(FALSE), {})
  /\ UNCHANGED <<session, local, saved, intact>>

\* getOrCreateCryptoKey, with no key stored: the generated key is exported
\* and session.set stores it.
getOrCreateCryptoKeyStore(key) ==
  StorageSet(session, Item(SESSION_KEY_CRYPTO, ExportKey(key)))

\* A save that writes the two codes to the durable store when it stores its
\* key: what the code would be if save wrote the identifier pair before the
\* encryption.
SaveStoreKeyWritingCodes(o) ==
  /\ o.pc = "save_generate"
  /\ session' = getOrCreateCryptoKeyStore(GeneratedKey)
  /\ local' = StorageSet(local,
                         [k \in {STORAGE_KEY_COMPANY, STORAGE_KEY_EMPLOYEE} |->
                            IF k = STORAGE_KEY_COMPANY THEN o.args.companyCode
                            ELSE o.args.employeeCode])
  /\ running' = Becomes(o, Op("save_encrypt", o.args, GeneratedKey))
  /\ event' = NoEvent
  /\ UNCHANGED <<saved, intact>>

SaveStoreKey(o) ==
  /\ o.pc = "save_generate"
  /\ session' = getOrCreateCryptoKeyStore(GeneratedKey)
  /\ running' = Becomes(o, Op("save_encrypt", o.args, GeneratedKey))
  /\ event' = NoEvent
  /\ UNCHANGED <<local, saved, intact>>

\* The items of a local.set that writes the identifier pair alone: what the
\* code would be if save stored the codes and the blob in separate writes.
saveItemsCodesOnly(companyCode, employeeCode, encrypted, iv) ==
  [k \in {STORAGE_KEY_COMPANY, STORAGE_KEY_EMPLOYEE} |->
     IF k = STORAGE_KEY_COMPANY THEN companyCode ELSE employeeCode]

\* The one local.set of save: both codes, the ciphertext and the nonce.
saveItems(companyCode, employeeCode, encrypted, iv) ==
  [k \in LocalKeys |->
     IF k = STORAGE_KEY_COMPANY THEN companyCode
     ELSE IF k = STORAGE_KEY_EMPLOYEE THEN employeeCode
     ELSE IF k = STORAGE_KEY_PASSWORD THEN encrypted
     ELSE iv]

\* A save that also puts the raw bytes of its key in the durable store: what
\* the code would be if local.set had the exported key among its items.
SaveWriteKeepingKey(o) ==
  /\ o.pc = "save_encrypt"
  /\ LET e == encryptPassword(o.args.password, o.key, GeneratedIv) IN
       local' = StorageSet(StorageSet(local, saveItems(o.args.companyCode,
                                                       o.args.employeeCode,
                                                       e.encrypted, e.iv)),
                           Item(SESSION_KEY_CRYPTO, ExportKey(o.key)))
  /\ running' = Finish(o)
  /\ event' = Returned("save", Boolean(TRUE), {"session"})
  /\ saved' = o.args
  /\ intact' = TRUE
  /\ UNCHANGED session

\* save encrypts the password under the key it holds, local.set stores the
\* four fields, and save returns true.
SaveWrite(o) ==
  /\ o.pc = "save_encrypt"
  /\ LET e == encryptPassword(o.args.password, o.key, GeneratedIv) IN
       local' = StorageSet(local, saveItems(o.args.companyCode, o.args.employeeCode,
                                            e.encrypted, e.iv))
  /\ running' = Finish(o)
  /\ event' = Returned("save", Boolean(TRUE), {"session"})
  /\ saved' = o.args
  /\ intact' = TRUE
  /\ UNCHANGED session

-----------------------------------------------------------------------------
(* CredentialManager.get, exists, getSavedCodes *)

\* getCryptoKey: the stored key imported, or null.
getCryptoKey ==
  LET result == StorageGet(session, {SESSION_KEY_CRYPTO}) IN
  IF FalsyArray(result, SESSION_KEY_CRYPTO) THEN NullKey
  ELSE ImportKey(result[SESSION_KEY_CRYPTO])

\* A get that would take the decrypted bytes whatever the key: what the
\* code would be if the ciphertext opened under any key.
getWithAnyKey(cryptoKey) ==
  LET result == StorageGet(local, LocalKeys) IN
  IF \/ FalsyString(result, STORAGE_KEY_COMPANY)
     \/ FalsyString(result, STORAGE_KEY_EMPLOYEE)
     \/ FalsyArray(result, STORAGE_KEY_PASSWORD)
     \/ FalsyArray(result, STORAGE_KEY_IV)
    THEN Null
  ELSE Credentials(result[STORAGE_KEY_COMPANY], result[STORAGE_KEY_EMPLOYEE],
                   decryptPassword(result[STORAGE_KEY_PASSWORD],
                                   result[STORAGE_KEY_IV], cryptoKey))

\* get, once it holds a key: the four fields are read in one local.get; a
\* missing field gives null, and so does a decryption that throws.
getWithKey(cryptoKey) ==
  LET result == StorageGet(local, LocalKeys) IN
  IF \/ FalsyString(result, STORAGE_KEY_COMPANY)
     \/ FalsyString(result, STORAGE_KEY_EMPLOYEE)
     \/ FalsyArray(result, STORAGE_KEY_PASSWORD)
     \/ FalsyArray(result, STORAGE_KEY_IV)
    THEN Null
  ELSE IF ~AesGcmOpens(result[STORAGE_KEY_PASSWORD], result[STORAGE_KEY_IV], cryptoKey)
    THEN Null
  ELSE Credentials(result[STORAGE_KEY_COMPANY], result[STORAGE_KEY_EMPLOYEE],
                   decryptPassword(result[STORAGE_KEY_PASSWORD],
                                   result[STORAGE_KEY_IV], cryptoKey))

\* What get() returns when nothing else runs between its two reads.
get == IF getCryptoKey = NullKey THEN Null ELSE getWithKey(getCryptoKey)

\* An exists() that answers from an item of the durable store and not from
\* what get() returned: what the code would be if exists kept to a stored
\* mark of its own.
existsOfStoredMark(credential) == Boolean(STORAGE_KEY_COMPANY \in DOMAIN local)

\* exists(): credential !== null
existsOf(credential) == Boolean(credential # Null)

\* What exists() returns when nothing else runs between its two reads.
exists == existsOf(get)

\* A getSavedCodes that answers only while a key is resident: what the
\* code would be if the codes' reader went through getCryptoKey as get does.
getSavedCodesBehindKey ==
  LET result == StorageGet(local, {STORAGE_KEY_COMPANY, STORAGE_KEY_EMPLOYEE}) IN
  IF getCryptoKey = NullKey THEN Null
  ELSE IF FalsyString(result, STORAGE_KEY_COMPANY)
            \/ FalsyString(result, STORAGE_KEY_EMPLOYEE)
    THEN Null
  ELSE Codes(result[STORAGE_KEY_COMPANY], result[STORAGE_KEY_EMPLOYEE])

\* getSavedCodes(): one local.get of the two codes.
getSavedCodes ==
  LET result == StorageGet(local, {STORAGE_KEY_COMPANY, STORAGE_KEY_EMPLOYEE}) IN
  IF FalsyString(result, STORAGE_KEY_COMPANY) \/ FalsyString(result, STORAGE_KEY_EMPLOYEE)
    THEN Null
  ELSE Codes(result[STORAGE_KEY_COMPANY], result[STORAGE_KEY_EMPLOYEE])

\* A get() that makes a key when it finds none: what the code would be if
\* get went through getOrCreateCryptoKey as save does.
GetCallCreatingKey ==
  /\ IF getCryptoKey = NullKey
       THEN /\ session' = getOrCreateCryptoKeyStore(GeneratedKey)
            /\ HasRoom
            /\ running' = Start(Op("get_local", NoArgs, GeneratedKey))
            /\ event' = NoEvent
       ELSE /\ session' = session
            /\ HasRoom
            /\ running' = Start(Op("get_local", NoArgs, getCryptoKey))
            /\ event' = NoEvent
  /\ UNCHANGED <<local, saved, intact>>

\* A get() that goes on to read the durable store whether it found a key or
\* not: what the code would be without the return at a missing key.
GetCallReadingLocalAnyway ==
  /\ HasRoom
  /\ running' = Start(Op("get_local", NoArgs, getCryptoKey))
  /\ event' = NoEvent
  /\ UNCHANGED <<session, local, saved, intact>>

\* get() reads the session store: with no key it returns null, with one it
\* goes on to read local.
GetCall ==
  /\ IF getCryptoKey = NullKey
       THEN /\ running' = running
            /\ event' = Returned("get", Null, {"session"})
       ELSE /\ HasRoom
            /\ running' = Start(Op("get_local", NoArgs, getCryptoKey))
            /\ event' = NoEvent
  /\ UNCHANGED <<session, local, saved, intact>>

\* local.get answers and get returns.
GetReadLocal(o) ==
  /\ o.pc = "get_local"
  /\ running' = Finish(o)
  /\ event' = Returned("get", getWithKey(o.key), {"session", "local"})
  /\ UNCHANGED <<session, local, saved, intact>>

\* exists() awaits get() and compares its result with null.
ExistsCall ==
  /\ IF getCryptoKey = NullKey
       THEN /\ running' = running
            /\ event' = Returned("exists", existsOf(Null), {"session"})
       ELSE /\ HasRoom
            /\ running' = Start(Op("exists_local", NoArgs, getCryptoKey))
            /\ event' = NoEvent
  /\ UNCHANGED <<session, local, saved, intact>>

ExistsReadLocal(o) ==
  /\ o.pc = "exists_local"
  /\ running' = Finish(o)
  /\ event' = Returned("exists", existsOf(getWithKey(o.key)), {"session", "local"})
  /\ UNCHANGED <<session, local, saved, intact>>

\* getSavedCodes() reads local and returns.
GetSavedCodesCall ==
  /\ event' = Returned("getSavedCodes", getSavedCodes, {"local"})
  /\ UNCHANGED <<session, local, running, saved, intact>>

-----------------------------------------------------------------------------
(* CredentialManager.clear *)

\* clear(): local.remove takes the four fields away; clear goes on to the
\* session store.
ClearCall ==
  /\ HasRoom
  /\ local' = StorageRemove(local, LocalKeys)
  /\ running' = Start(Op("clear_session", NoArgs, 0))
  /\ event' = NoEvent
  /\ saved' = NoArgs
  /\ intact' = FALSE
  /\ UNCHANGED session

\* session.remove takes the key away and clear returns true.
ClearRemoveSession(o) ==
  /\ o.pc = "clear_session"
  /\ session' = StorageRemove(session, {SESSION_KEY_CRYPTO})
  /\ running' = Finish(o)
  /\ event' = Returned("clear", Boolean(TRUE), {})
  /\ intact' = FALSE
  /\ UNCHANGED <<local, saved>>

-----------------------------------------------------------------------------
(* The service worker: its readers and its message listener *)

\* getCryptoKey of the service worker.
bgGetCryptoKey ==
  LET result == StorageGet(session, {BG_SESSION_KEY_CRYPTO}) IN
  IF FalsyArray(result, BG_SESSION_KEY_CRYPTO) THEN NullKey
  ELSE ImportKey(result[BG_SESSION_KEY_CRYPTO])

\* getCredentials, once it holds a key.
getCredentialsWithKey(cryptoKey) ==
  LET result == StorageGet(local, {BG_STORAGE_KEY_COMPANY, BG_STORAGE_KEY_EMPLOYEE,
                                   BG_STORAGE_KEY_PASSWORD, BG_STORAGE_KEY_IV}) IN
  IF \/ FalsyString(result, BG_STORAGE_KEY_COMPANY)
     \/ FalsyString(result, BG_STORAGE_KEY_EMPLOYEE)
     \/ FalsyArray(result, BG_STORAGE_KEY_PASSWORD)
     \/ FalsyArray(result, BG_STORAGE_KEY_IV)
    THEN Null
  ELSE IF ~AesGcmOpens(result[BG_STORAGE_KEY_PASSWORD], result[BG_STORAGE_KEY_IV],
                       cryptoKey)
    THEN Null
  ELSE Credentials(result[BG_STORAGE_KEY_COMPANY], result[BG_STORAGE_KEY_EMPLOYEE],
                   bgDecryptPassword(result[BG_STORAGE_KEY_PASSWORD],
                                     result[BG_STORAGE_KEY_IV], cryptoKey))

\* What getCredentials() returns when nothing else runs between its reads.
getCredentials ==
  IF bgGetCryptoKey = NullKey THEN Null ELSE getCredentialsWithKey(bgGetCryptoKey)

\* getSavedCodes of the service worker.
bgGetSavedCodes ==
  LET result == StorageGet(local, {BG_STORAGE_KEY_COMPANY, BG_STORAGE_KEY_EMPLOYEE}) IN
  IF FalsyString(result, BG_STORAGE_KEY_COMPANY)
       \/ FalsyString(result, BG_STORAGE_KEY_EMPLOYEE)
    THEN Null
  ELSE Codes(result[BG_STORAGE_KEY_COMPANY], result[BG_STORAGE_KEY_EMPLOYEE])

\* url.startsWith(prefix)
StartsWith(url, prefix) ==
  Len(url) >= Len(prefix) /\ SubSeq(url, 1, Len(prefix)) = prefix

\* isValidSender(sender): a sender with the extension's id is checked by
\* its url when it has one (a non-empty string), and allowed when it has none.
isValidSender(sender) ==
  IF sender.id = RuntimeId
    THEN IF "url" \in DOMAIN sender /\ sender.url # <<>>
           THEN StartsWith(sender.url, TrustedPrefix)
           ELSE TRUE
    ELSE FALSE

\* A listener that turns a denied sender away without a response: what the
\* code would be without its sendResponse(null).
DenyWithoutResponse ==
  /\ event' = NoEvent
  /\ UNCHANGED <<session, local, running, saved, intact>>

\* The listener turns away a sender the gate denies: sendResponse(null).
Deny ==
  /\ event' = Returned("onMessage", Null, {})
  /\ UNCHANGED <<session, local, running, saved, intact>>

\* GET_CREDENTIALS: getCredentials() reads the session store; with no key
\* the answer is null, with one it goes on to read local.
HandleGetCredentials ==
  /\ IF bgGetCryptoKey = NullKey
       THEN /\ running' = running
            /\ event' = Returned("GET_CREDENTIALS", Null, {"session"})
       ELSE /\ HasRoom
            /\ running' = Start(Op("bg_get_local", NoArgs, bgGetCryptoKey))
            /\ event' = NoEvent
  /\ UNCHANGED <<session, local, saved, intact>>

\* GET_SAVED_CODES: getSavedCodes() reads local and the answer is sent.
HandleGetSavedCodes ==
  /\ event' = Returned("GET_SAVED_CODES", bgGetSavedCodes, {"local"})
  /\ UNCHANGED <<session, local, running, saved, intact>>

\* A message of any other type: the listener returns without answering.
HandleOther ==
  /\ event' = NoEvent
  /\ UNCHANGED <<session, local, running, saved, intact>>

\* A listener that asks the gate for GET_CREDENTIALS only: what the code
\* would be if the codes' handler ran before the gate.
OnMessageGateForCredentials(type, sender) ==
  IF type = "GET_SAVED_CODES" THEN HandleGetSavedCodes
  ELSE IF ~isValidSender(sender) THEN Deny
  ELSE IF type = "GET_CREDENTIALS" THEN HandleGetCredentials
  ELSE HandleOther

\* chrome.runtime.onMessage: the gate first, then the handler of the type.
OnMessage(type, sender) ==
  IF ~isValidSender(sender) THEN Deny
  ELSE IF type = "GET_CREDENTIALS" THEN HandleGetCredentials
  ELSE IF type = "GET_SAVED_CODES" THEN HandleGetSavedCodes
  ELSE HandleOther

\* What the listener returns to the host: false after the response to a
\* denied sender, true where a reader's promise will call sendResponse, and
\* nothing (undefined) for a message of another type.
listenerReturns(type, sender) ==
  IF ~isValidSender(sender) THEN "false"
  ELSE IF type = "GET_CREDENTIALS" THEN "true"
  ELSE IF type = "GET_SAVED_CODES" THEN "true"
  ELSE "undefined"

\* getCredentials: local.get answers, and sendResponse passes the result on.
BgReadLocal(o) ==
  /\ o.pc = "bg_get_local"
  /\ running' = Finish(o)
  /\ event' = Returned("GET_CREDENTIALS", getCredentialsWithKey(o.key),
                       {"session", "local"})
  /\ UNCHANGED <<session, local, saved, intact>>

-----------------------------------------------------------------------------
(* The content script: main() on a page of the attendance site *)

\* What main() can tell of the page it runs in: isTimeoutErrorPage(),
\* is500ErrorPage() and isLoginPage().
Pages == [timeout : BOOLEAN, error500 : BOOLEAN, login : BOOLEAN]

\* A main() that looks for the login form before it looks for the error
\* pages: what the code would be with its three checks in the other order.
mainBranchLoginFirst(page) ==
  IF page.login THEN "login"
  ELSE IF page.timeout THEN "redirect"
  ELSE IF page.error500 THEN "redirect"
  ELSE "none"

\* The branch main() takes: the two error pages first, then the login page.
mainBranch(page) ==
  IF page.timeout THEN "redirect"
  ELSE IF page.error500 THEN "redirect"
  ELSE IF page.login THEN "login"
  ELSE "none"

\* What the page has done: redirectToLogin(), fillAndSubmit(credentials),
\* or main() ending with a line in the console.
Redirected == Returned("redirectToLogin", NoValue, {})
Filled(credentials) == Returned("fillAndSubmit", credentials, {})
MainEnded == Returned("main", NoValue, {})

\* main(): an error page is left for the login page; on the login page the
\* GET_CREDENTIALS message is sent and main() waits for the response.
ContentMain(page) ==
  /\ IF mainBranch(page) = "redirect"
       THEN /\ running' = running
            /\ event' = Redirected
     ELSE IF mainBranch(page) = "login"
       THEN /\ HasRoom
            /\ running' = Start(Op("cs_credentials", NoArgs, 0))
            /\ event' = NoEvent
     ELSE /\ running' = running
          /\ event' = MainEnded
  /\ UNCHANGED <<session, local, saved, intact>>

\* if (credentials) ... else ...: a record starts the timer of the fill,
\* null makes main() send GET_SAVED_CODES.
afterCredentials(credentials) ==
  IF credentials # Null THEN Op("cs_timer", credentials, 0)
  ELSE Op("cs_codes", NoArgs, 0)

\* The listener takes the GET_CREDENTIALS message of the page: a denied
\* sender and a missing key are answered null at once, and main() goes on;
\* with a key, getCredentials() goes on to read local.
ContentCredentialsListener(o) ==
  /\ o.pc = "cs_credentials"
  /\ IF ~isValidSender(LoginSender) \/ bgGetCryptoKey = NullKey
       THEN running' = Becomes(o, afterCredentials(Null))
       ELSE running' = Becomes(o, Op("cs_bg_local", NoArgs, bgGetCryptoKey))
  /\ event' = NoEvent
  /\ UNCHANGED <<session, local, saved, intact>>

\* local.get answers, getCredentials() resolves, the response reaches the
\* page and main() goes on with it.
ContentCredentialsAnswer(o) ==
  /\ o.pc = "cs_bg_local"
  /\ running' = Becomes(o, afterCredentials(getCredentialsWithKey(o.key)))
  /\ event' = NoEvent
  /\ UNCHANGED <<session, local, saved, intact>>

\* The listener answers GET_SAVED_CODES; main() writes one of its two lines
\* to the console and ends.
ContentCodesAnswer(o) ==
  /\ o.pc = "cs_codes"
  /\ running' = Finish(o)
  /\ event' = MainEnded
  /\ UNCHANGED <<session, local, saved, intact>>

\* The timer fires: fillAndSubmit(credentials) fills the form and clicks the
\* button when the four elements are (still) in the page, and returns
\* without a fill when one is missing.
ContentFill(o, formPresent) ==
  /\ o.pc = "cs_timer"
  /\ running' = Finish(o)
  /\ event' = IF formPresent THEN Filled(o.args) ELSE MainEnded
  /\ UNCHANGED <<session, local, saved, intact>>

-----------------------------------------------------------------------------
(* A store or crypto call that rejects *)

\* The operation an awaiting step belongs to.
OperationOf(pc) ==
  IF pc \in {"save_generate", "save_encrypt"} THEN "save"
  ELSE IF pc = "clear_session" THEN "clear"
  ELSE IF pc = "get_local" THEN "get"
  ELSE IF pc = "exists_local" THEN "exists"
  ELSE "GET_CREDENTIALS"

\* What the operations would give if get() had no catch block: the failure
\* of a read or of the decryption would pass through get() and exists() to
\* their callers.
CaughtValueWithoutCatchInGet(op) ==
  IF op \in {"save", "clear"} THEN Boolean(FALSE)
  ELSE IF op \in {"get", "exists"} THEN [type |-> "uncaught"]
  ELSE Null

\* What the operation's catch block returns.
CaughtValue(op) ==
  IF op \in {"save", "clear"} THEN Boolean(FALSE)
  ELSE IF op = "exists" THEN existsOf(Null)
  ELSE Null

Operations ==
  {"save", "get", "exists", "getSavedCodes", "clear", "GET_CREDENTIALS",
   "GET_SAVED_CODES"}

Caught(op) == [op |-> op, val |-> CaughtValue(op), reads |-> {}, threw |-> TRUE]

\* The context whose code runs an operation: the methods of CredentialManager
\* are called by the handlers of the settings page (popup.js), in that page;
\* the listener and its two readers run in the service worker.
ContextOf(op) ==
  IF op \in {"GET_CREDENTIALS", "GET_SAVED_CODES", "onMessage"} THEN "background"
  ELSE "popup"

\* The call an operation in flight waits for rejects: nothing is read or
\* written, and the operation's catch block makes its result.
Throw(o) ==
  /\ running' = Finish(o)
  /\ event' = Caught(OperationOf(o.pc))
  /\ UNCHANGED <<session, local, saved, intact>>

\* The first store call of an operation rejects.
ThrowAtCall(op) ==
  /\ event' = Caught(op)
  /\ UNCHANGED <<session, local, running, saved, intact>>

-----------------------------------------------------------------------------
(* The host *)

\* The browser session ends: the host erases the session store, and every
\* context of the extension is gone with whatever it was doing.
SessionEnd ==
  /\ session' = Empty
  /\ running' = EmptyBag
  /\ event' = [NoEvent EXCEPT !.op = "sessionEnd"]
  /\ intact' = FALSE
  /\ UNCHANGED <<local, saved>>

-----------------------------------------------------------------------------

\* The result the last step produced reaches its caller.  A step that
\* returns or answers leaves its result in event; nothing else of the
\* program changes when the caller takes it.
Deliver ==
  /\ event # NoEvent
  /\ event' = NoEvent
  /\ UNCHANGED <<session, local, running, saved, intact>>

Quiet == event = NoEvent

\* The steps that take no input from outside.
SaveStoreKeyStep == \E o \in Ops : Quiet /\ SaveStoreKey(o)
SaveWriteStep == \E o \in Ops : Quiet /\ SaveWrite(o)
GetStep == Quiet /\ GetCall
GetReadLocalStep == \E o \in Ops : Quiet /\ GetReadLocal(o)
ExistsStep == Quiet /\ ExistsCall
ExistsReadLocalStep == \E o \in Ops : Quiet /\ ExistsReadLocal(o)
GetSavedCodesStep == Quiet /\ GetSavedCodesCall
ClearStep == Quiet /\ ClearCall
ClearRemoveSessionStep == \E o \in Ops : Quiet /\ ClearRemoveSession(o)
BgReadLocalStep == \E o \in Ops : Quiet /\ BgReadLocal(o)
ThrowStep == \E o \in Ops : Quiet /\ Throw(o)
ThrowAtCallStep == \E op \in Operations : Quiet /\ ThrowAtCall(op)
SessionEndStep == Quiet /\ SessionEnd

\* The vault under concurrency, up to MaxInFlight operations in flight:
\* the callers' inputs are the two valid saves and one invalid save, and the
\* messages of the login page and of the settings page.
CommonSaveInputs == {ShortCodesSave, LongCodesSave, SixDigitCompanySave}
CommonSenders == {LoginSender, PopupSender}

Next ==
  \/ \E in \in CommonSaveInputs : Quiet /\ SaveCall(in)
  \/ \E type \in MessageTypes, sender \in CommonSenders :
       Quiet /\ OnMessage(type, sender)
  \/ SaveStoreKeyStep
  \/ SaveWriteStep
  \/ GetStep
  \/ GetReadLocalStep
  \/ ExistsStep
  \/ ExistsReadLocalStep
  \/ GetSavedCodesStep
  \/ ClearStep
  \/ ClearRemoveSessionStep
  \/ BgReadLocalStep
  \/ ThrowStep
  \/ ThrowAtCallStep
  \/ SessionEndStep
  \/ Deliver

Spec == Init /\ [][Next]_vars

\* The vault with every input of SaveInputs, Senders and MessageTypes, and
\* up to MaxInFlightAllInputs operations in flight.
MaxInFlightAllInputs == 1

FewInFlight == BagCardinality(running) <= MaxInFlightAllInputs

NextAllInputs ==
  \/ \E in \in SaveInputs : Quiet /\ SaveCall(in) /\ FewInFlight'
  \/ \E type \in MessageTypes, sender \in Senders :
       Quiet /\ OnMessage(type, sender) /\ FewInFlight'
  \/ SaveStoreKeyStep
  \/ SaveWriteStep
  \/ GetStep /\ FewInFlight'
  \/ GetReadLocalStep
  \/ ExistsStep /\ FewInFlight'
  \/ ExistsReadLocalStep
  \/ GetSavedCodesStep
  \/ ClearStep /\ FewInFlight'
  \/ ClearRemoveSessionStep
  \/ BgReadLocalStep
  \/ ThrowStep
  \/ ThrowAtCallStep
  \/ SessionEndStep
  \/ Deliver

SpecAllInputs == Init /\ [][NextAllInputs]_vars

\* The readers the service worker can have in flight.
BgReaders == {Op("bg_get_local", NoArgs, k) : k \in KeyNames}

\* The same, with the scheduling of the host: a storage call that is waited
\* for answers in the end, and a result that was produced reaches its
\* caller.
SpecAllInputsFair ==
  /\ SpecAllInputs
  /\ SF_vars(BgReadLocalStep)
  /\ WF_vars(Deliver)

\* The content script with the vault: pages load and run main(), the
\* listener answers them, and the settings page saves and clears meanwhile.
ContentMainStep == \E page \in Pages : Quiet /\ ContentMain(page)
ContentCredentialsListenerStep == \E o \in Ops : Quiet /\ ContentCredentialsListener(o)
ContentCredentialsAnswerStep == \E o \in Ops : Quiet /\ ContentCredentialsAnswer(o)
ContentCodesAnswerStep == \E o \in Ops : Quiet /\ ContentCodesAnswer(o)
ContentFillStep ==
  \E o \in Ops, formPresent \in BOOLEAN : Quiet /\ ContentFill(o, formPresent)

NextContent ==
  \/ ContentMainStep
  \/ ContentCredentialsListenerStep
  \/ ContentCredentialsAnswerStep
  \/ ContentCodesAnswerStep
  \/ ContentFillStep
  \/ \E in \in CommonSaveInputs : Quiet /\ SaveCall(in)
  \/ SaveStoreKeyStep
  \/ SaveWriteStep
  \/ ClearStep
  \/ ClearRemoveSessionStep
  \/ SessionEndStep
  \/ Deliver

SpecContent == Init /\ [][NextContent]_vars

-----------------------------------------------------------------------------
(* Properties *)

HasKey == SESSION_KEY_CRYPTO \in DOMAIN session
HasFields == LocalKeys \subseteq DOMAIN local

\* LOCKED: the four durable fields are there and the session key is not.
Locked == HasFields /\ ~HasKey

\* The record of the arguments of the last save.
SavedRecord == Credentials(saved.companyCode, saved.employeeCode, saved.password)

\* C1: after a save that returned true, with the session key not erased and
\* no clear() since, and with nothing else in flight, CredentialManager.get
\* and the service worker's getCredentials return exactly the company code,
\* employee code and password that were saved.
C1_SaveThenGetReturnsInput ==
  (intact /\ saved # NoArgs /\ running = EmptyBag)
    => (get = SavedRecord /\ getCredentials = SavedRecord)

\* The pair made of the two identifier fields of the durable store alone.
StoredPair ==
  IF STORAGE_KEY_COMPANY \in DOMAIN local /\ STORAGE_KEY_EMPLOYEE \in DOMAIN local
    THEN Codes(local[STORAGE_KEY_COMPANY], local[STORAGE_KEY_EMPLOYEE])
    ELSE Null

\* C2: with the session key erased and the four durable fields still there,
\* a get() returns null, an exists() returns false and a GET_CREDENTIALS
\* message is answered null, while getSavedCodes() (of CredentialManager and
\* of the service worker) returns the pair of the last save; in every state
\* what getSavedCodes() returns is made of the two identifier fields only,
\* whatever the key.
C2_LockedKeepsCodes ==
  [][ /\ Locked =>
           /\ GetCall => event' = Returned("get", Null, {"session"})
           /\ ExistsCall => event' = Returned("exists", Boolean(FALSE), {"session"})
           /\ HandleGetCredentials
                => event' = Returned("GET_CREDENTIALS", Null, {"session"})
           /\ GetSavedCodesCall
                => event'.val = Codes(saved.companyCode, saved.employeeCode)
           /\ HandleGetSavedCodes
                => event'.val = Codes(saved.companyCode, saved.employeeCode)
      /\ GetSavedCodesCall => event'.val = StoredPair
      /\ HandleGetSavedCodes => event'.val = StoredPair
    ]_vars

\* A getSavedCodes() that returned the saved pair while the vault was locked.
C2_Witness ==
  /\ Locked
  /\ event.op = "getSavedCodes"
  /\ event.val = Codes(saved.companyCode, saved.employeeCode)
  /\ event.val # Null

\* The senders isValidSender denies.
DeniedSenders == {sender \in Senders : ~isValidSender(sender)}

\* C3: a message whose sender isValidSender denies is answered null, and
\* the listener reads neither store for it, starts nothing that would, and
\* leaves both stores as they are, whatever the message type; the answer is
\* the same whatever is stored.
C3_DeniedSenderReadsNothing ==
  [][ \A type \in MessageTypes, sender \in DeniedSenders :
        OnMessage(type, sender)
          => /\ event' = [op |-> "onMessage", val |-> Null, reads |-> {},
                          threw |-> FALSE]
             /\ running' = running
             /\ session' = session
             /\ local' = local
    ]_vars

\* A denied message answered null while credentials were stored and
\* readable.
C3_Witness ==
  /\ event = [op |-> "onMessage", val |-> Null, reads |-> {}, threw |-> FALSE]
  /\ HasKey
  /\ HasFields
  /\ get # Null

\* C4: the gate denies every sender whose id is not the extension's own;
\* a sender with the extension's id and the url of a page is allowed exactly
\* when the url starts with 'https://kinrouap1.hr44.jp/'; and a message of
\* the extension's own settings page is never turned away.
C4_GateDecision ==
  [][ \A type \in MessageTypes :
        /\ \A sender \in Senders :
             (OnMessage(type, sender) /\ sender.id # RuntimeId)
               => event'.op = "onMessage"
        /\ \A sender \in Senders \ {PopupSender} :
             (OnMessage(type, sender) /\ sender.id = RuntimeId
                /\ "url" \in DOMAIN sender)
               => (event'.op = "onMessage"
                     <=> ~(Len(sender.url) >= Len(TrustedPrefix)
                           /\ \A i \in 1..Len(TrustedPrefix) :
                                sender.url[i] = TrustedPrefix[i]))
        /\ OnMessage(type, PopupSender) => event'.op # "onMessage"
    ]_vars

\* C5: within one session, with no session end and no clear() in between,
\* the key held in the session store, once written, is never replaced by
\* another key, whatever the interleaving of save() calls.
C5_KeyNeverReplaced ==
  [][ (HasKey /\ SESSION_KEY_CRYPTO \in DOMAIN session')
        => session'[SESSION_KEY_CRYPTO] = session[SESSION_KEY_CRYPTO] ]_vars

\* The steps of save() and clear() that write, told by the operation in
\* flight that takes them, and the end of the session.
ByGetOrCreateCryptoKey ==
  \E o \in Ops :
    /\ o.pc = "save_generate"
    /\ \E n \in BagToSet(running') :
         /\ n.pc = "save_encrypt"
         /\ n.args = o.args
         /\ running' = Becomes(o, n)
BySaveWrite ==
  \E o \in Ops : o.pc = "save_encrypt" /\ running' = Finish(o)
ByClearLocalRemove ==
  \E n \in BagToSet(running') : n.pc = "clear_session" /\ running' = Start(n)
ByClearSessionRemove ==
  \E o \in Ops : o.pc = "clear_session" /\ running' = Finish(o)
BySessionEnd == event'.op = "sessionEnd"

\* C6: a step that changes the session store or the durable store is a step
\* of save() or clear() or the end of the session, never one of get, exists,
\* getSavedCodes, getCryptoKey or the two message handlers; a key comes into
\* the session store only by save()'s getOrCreateCryptoKey, and a get() that
\* finds no key leaves the store without one.
C6_ReadersWriteNothing ==
  [][ /\ session' # session
           => (ByGetOrCreateCryptoKey \/ ByClearSessionRemove \/ BySessionEnd)
      /\ local' # local => (BySaveWrite \/ ByClearLocalRemove)
      /\ (SESSION_KEY_CRYPTO \in DOMAIN session' /\ session' # session)
           => ByGetOrCreateCryptoKey
    ]_vars

\* A get() that found no key returned null and the session store is still
\* without one.
C6_Witness ==
  /\ event = Returned("get", Null, {"session"})
  /\ ~HasKey

\* A string of one to n decimal digits.
DigitString(s, n) ==
  \E len \in 1..n : Len(s) = len /\ {s[i] : i \in 1..len} \subseteq Digits

\* The inputs of save() that the contract rejects.
RejectedInputs ==
  {in \in SaveInputs :
     \/ ~DigitString(in.companyCode, 5)
     \/ ~DigitString(in.employeeCode, 10)
     \/ Len(in.password) = 0}

\* C7: a save(c, e, p) whose c is not one to five digits, or whose e is not
\* one to ten digits, or whose p is empty returns false, and it leaves both
\* stores as they were and nothing in flight that would write later.
C7_InvalidSaveChangesNothing ==
  [][ \A in \in RejectedInputs :
        SaveCall(in)
          => /\ event' = [op |-> "save", val |-> Boolean(FALSE), reads |-> {},
                          threw |-> FALSE]
             /\ session' = session
             /\ local' = local
             /\ running' = running
    ]_vars

\* A rejected save() returned false with credentials of an earlier save in
\* the stores; the seven invalid inputs of SaveInputs are all among the
\* rejected ones.
C7_Witness ==
  /\ event = [op |-> "save", val |-> Boolean(FALSE), reads |-> {}, threw |-> FALSE]
  /\ HasKey
  /\ HasFields
  /\ Cardinality(RejectedInputs) = 7

\* C8: when clear() has returned true, none of the five items is left (the
\* two codes, the ciphertext and the nonce in the durable store, the key in
\* the session store), so that get() is null, exists() is false and
\* getSavedCodes() is null.
C8_ClearLeavesNothing ==
  (event.op = "clear" /\ event.val = Boolean(TRUE))
    => /\ DOMAIN local \cap LocalKeys = {}
       /\ ~HasKey
       /\ get = Null
       /\ exists = Boolean(FALSE)
       /\ getSavedCodes = Null

\* C9: a save(c, e, p2) made in LOCKED that returns true has minted a new
\* key, has replaced the ciphertext and the nonce, and a get() that follows
\* returns {c, e, p2}; the ciphertext written before the key was erased is
\* not opened by the new key.  The step is the write of a save that is the
\* only operation in flight, over a ciphertext whose key was erased after
\* it was written.
C9_SaveFromLockedUnlocks ==
  [][ \A o \in Ops :
        ( /\ o.pc = "save_encrypt"
          /\ running = SetToBag({o})
          /\ running' = EmptyBag
          /\ event'.op = "save"
          /\ event'.val = Boolean(TRUE)
          /\ HasFields
          /\ ~intact )
        => /\ HasKey
           /\ session' = session
           /\ session[SESSION_KEY_CRYPTO] = ExportKey(o.key)
           /\ local'[STORAGE_KEY_PASSWORD] # local[STORAGE_KEY_PASSWORD]
           /\ local'[STORAGE_KEY_IV] # local[STORAGE_KEY_IV]
           /\ get' = Credentials(o.args.companyCode, o.args.employeeCode,
                                 o.args.password)
           /\ ~AesGcmOpens(local[STORAGE_KEY_PASSWORD], local[STORAGE_KEY_IV],
                           o.key)
    ]_vars

\* C10: while get() is unavailable, as it is in LOCKED, the only step that
\* makes it return a record is the write of a save() that returns true: no
\* get, exists, getSavedCodes, rejected or failed save, message or clear()
\* does; and in LOCKED itself every get() and every GET_CREDENTIALS message
\* is answered null.
C10_OnlySaveUnlocks ==
  [][ /\ ((session' # session \/ local' # local) /\ get = Null /\ get' # Null)
           => /\ event' = Returned("save", Boolean(TRUE), {"session"})
              /\ BySaveWrite
      /\ (Locked /\ Quiet /\ event'.op \in {"get", "exists", "GET_CREDENTIALS"}
            /\ running' = running)
           => event'.val \in {Null, Boolean(FALSE)}
    ]_vars

\* The vault, locked after a save, has answered a GET_CREDENTIALS message
\* with null.
C10_Witness ==
  /\ Locked
  /\ saved # NoArgs
  /\ event = Returned("GET_CREDENTIALS", Null, {"session"})

\* C11: in every reachable state the durable store holds nothing but the
\* four fields of save(): two identifier strings of digits, a ciphertext
\* made by AES-GCM encryption and the nonce of that encryption; no item of
\* it is a password in the clear or the raw bytes of a key, and the raw
\* bytes of the key are in the session store only, under its one slot.
C11_DurableStoreHoldsNoSecret ==
  /\ DOMAIN local \subseteq LocalKeys
  /\ STORAGE_KEY_COMPANY \in DOMAIN local
       => isValidCompanyCode(local[STORAGE_KEY_COMPANY])
  /\ STORAGE_KEY_EMPLOYEE \in DOMAIN local
       => isValidEmployeeCode(local[STORAGE_KEY_EMPLOYEE])
  /\ STORAGE_KEY_PASSWORD \in DOMAIN local
       => LET c == local[STORAGE_KEY_PASSWORD] IN
            /\ DOMAIN c = {"key", "iv", "data"}
            /\ c.key \in KeyNames
            /\ c = AesGcmEncrypt(c.data, c.key, c.iv)
  /\ STORAGE_KEY_IV \in DOMAIN local => local[STORAGE_KEY_IV] \in Nonces
  /\ DOMAIN session \subseteq {SESSION_KEY_CRYPTO}
  /\ HasKey => \E k \in KeyNames : session[SESSION_KEY_CRYPTO] = ExportKey(k)

\* A save of the password that starts with U+FEFF has returned true: its
\* ciphertext is in the durable store and its key in the session store.
C11_Witness ==
  /\ event = Returned("save", Boolean(TRUE), {"session"})
  /\ saved = LongCodesSave
  /\ HasFields
  /\ HasKey
  /\ local[STORAGE_KEY_PASSWORD].data = TextEncode(LongCodesSave.password)

\* The durable store holds none of the four fields, or all four as one
\* save() wrote them.
FieldsOfOneSave ==
  \/ DOMAIN local \cap LocalKeys = {}
  \/ /\ HasFields
     /\ local[STORAGE_KEY_COMPANY] = saved.companyCode
     /\ local[STORAGE_KEY_EMPLOYEE] = saved.employeeCode
     /\ local[STORAGE_KEY_PASSWORD].data = TextEncode(saved.password)
     /\ local[STORAGE_KEY_PASSWORD].iv = local[STORAGE_KEY_IV]

\* C12: save() writes the two codes, the ciphertext and the nonce in one
\* step, so the durable store holds none of the four or the four of one
\* save, and a get(), a getSavedCodes() or a message handler that reads
\* while a save() is in flight returns null or a result made of the four
\* fields of one save: those before the write or those of the write.
C12_SaveWritesFourFieldsAtOnce ==
  /\ []FieldsOfOneSave
  /\ [][ /\ \A o \in Ops :
              (o.pc = "save_encrypt" /\ running' = Finish(o) /\ local' # local)
                => /\ LocalKeys \subseteq DOMAIN local'
                   /\ local'[STORAGE_KEY_COMPANY] = o.args.companyCode
                   /\ local'[STORAGE_KEY_EMPLOYEE] = o.args.employeeCode
                   /\ local'[STORAGE_KEY_PASSWORD].data = TextEncode(o.args.password)
                   /\ local'[STORAGE_KEY_PASSWORD].iv = local'[STORAGE_KEY_IV]
         /\ (event'.op \in {"getSavedCodes", "GET_SAVED_CODES"} /\ ~event'.threw)
              => event'.val \in {Null, Codes(saved.companyCode, saved.employeeCode)}
         /\ (event'.op \in {"get", "GET_CREDENTIALS"} /\ event'.val # Null)
              => /\ event'.val.companyCode = saved.companyCode
                 /\ event'.val.employeeCode = saved.employeeCode
                 /\ event'.val.password = TextDecode(TextEncode(saved.password))
       ]_vars

\* A get() has returned the record of the fields in the durable store while
\* a save() of other values was in flight, its write still to come.
C12_Witness ==
  /\ event.op = "get"
  /\ event.val # Null
  /\ \E o \in Ops : o.pc = "save_encrypt" /\ o.args # saved

\* The ciphertext in the durable store is not opened by the key the
\* operation holds: crypto.subtle.decrypt rejects.
DecryptRejects(o) ==
  /\ HasFields
  /\ ~AesGcmOpens(local[STORAGE_KEY_PASSWORD], local[STORAGE_KEY_IV], o.key)

\* C13: when a session-store, durable-store or crypto call of an operation
\* rejects, the operation ends with its failure result and nothing else:
\* false for save() and clear(), null for get(), getSavedCodes() and the two
\* message handlers, false for exists(); a decryption that rejects makes
\* get() and getCredentials() return null and exists() return false; and
\* save() returns true only in the step whose local.set wrote the four
\* fields of its arguments.
C13_FailuresAreCaught ==
  [][ /\ event'.threw
           => /\ event'.op \in {"save", "clear"} => event'.val = Boolean(FALSE)
              /\ event'.op \in {"get", "getSavedCodes", "GET_CREDENTIALS",
                                "GET_SAVED_CODES"} => event'.val = Null
              /\ event'.op = "exists" => event'.val = Boolean(FALSE)
              /\ event'.op \in Operations
              /\ session' = session
              /\ local' = local
      /\ \A o \in Ops :
           ( /\ DecryptRejects(o)
             /\ running' = Finish(o)
             /\ event'.op \in {"get", "exists", "GET_CREDENTIALS"}
             /\ ~event'.threw )
             => /\ o.pc \in {"get_local", "bg_get_local"} => event'.val = Null
                /\ o.pc = "exists_local" => event'.val = Boolean(FALSE)
      /\ (event'.op = "save" /\ event'.val = Boolean(TRUE))
           => /\ ~event'.threw
              /\ \E o \in Ops :
                   /\ o.pc = "save_encrypt"
                   /\ running' = Finish(o)
                   /\ StorageGet(local', LocalKeys)
                        = saveItems(o.args.companyCode, o.args.employeeCode,
                                    AesGcmEncrypt(TextEncode(o.args.password),
                                                  o.key, local'[STORAGE_KEY_IV]),
                                    local'[STORAGE_KEY_IV])
    ]_vars

\* A save() whose encryption or local.set rejected has returned false: the
\* key it made is in the session store and the durable store has no field.
C13_Witness ==
  /\ event = Caught("save")
  /\ event.val = Boolean(FALSE)
  /\ HasKey
  /\ ~HasFields

\* C14: exists() returns true exactly when a get() making the same reads
\* returns a record: with nothing running in between, exists() is true iff
\* get() is not null; an exists() that holds a key returns true iff the get()
\* with that key is not null; exists() is false when it finds no key and
\* when it finds a field missing, so in NO_CREDENTIAL and in LOCKED; and no
\* item of either store belongs to exists(): it writes nothing, and the
\* stores hold the five items of save() only.
C14_ExistsIsGetNotNull ==
  /\ [](exists = Boolean(get # Null))
  /\ []((~HasKey \/ ~HasFields) => exists = Boolean(FALSE))
  /\ [](DOMAIN local \subseteq LocalKeys /\ DOMAIN session \subseteq {SESSION_KEY_CRYPTO})
  /\ [][ /\ event'.op = "exists" => (session' = session /\ local' = local)
         /\ (event'.op = "exists" /\ ~event'.threw /\ running' = running)
              => /\ ~HasKey
                 /\ get = Null
                 /\ event'.val = Boolean(FALSE)
         /\ \A o \in Ops :
              (o.pc = "exists_local" /\ running' = Finish(o) /\ event'.op = "exists"
                 /\ ~event'.threw)
                => /\ event'.val = Boolean(getWithKey(o.key) # Null)
                   /\ ~HasFields => event'.val = Boolean(FALSE)
       ]_vars

\* An exists() has returned true, and a get() in that state returns a record.
C14_Witness ==
  /\ event = Returned("exists", Boolean(TRUE), {"session", "local"})
  /\ get # Null
  /\ exists = Boolean(TRUE)

\* C15: every read and every write of the durable store and of the session
\* store is made by code that runs in the service worker: each operation
\* that starts, goes on or ends in a step (it waits for a store or crypto
\* call, or has just made one) is an operation of the background context,
\* and so is each operation that returns after reading a store.
C15_StoresTouchedInBackgroundOnly ==
  [][ /\ \A o \in Ops \cup BagToSet(running') :
           (CopiesIn(o, running') # CopiesIn(o, running) /\ ~BySessionEnd)
             => ContextOf(OperationOf(o.pc)) = "background"
      /\ event'.reads # {} => ContextOf(event'.op) = "background"
    ]_vars

\* The operations that wait for local.get with the key they will decrypt with.
ReaderSteps == {"get_local", "exists_local", "bg_get_local"}

\* C16: with no key in the session store, get() and the service worker's
\* getCredentials() return null in the step that read the session store,
\* having read that store only: nothing is left in flight that would read
\* the durable store or decrypt.  A reader waits for the durable store only
\* with the key it found resident, never without one.
C16_NoKeyNoDurableRead ==
  [][ /\ (~HasKey /\ GetCall) => event' = Returned("get", Null, {"session"})
      /\ (~HasKey /\ HandleGetCredentials)
           => event' = Returned("GET_CREDENTIALS", Null, {"session"})
      /\ (~HasKey /\ event'.op \in {"get", "GET_CREDENTIALS"} /\ running' = running
            /\ ~event'.threw)
           => (event'.val = Null /\ event'.reads = {"session"})
      /\ \A n \in BagToSet(running') :
           (n.pc \in ReaderSteps /\ CopiesIn(n, running') > CopiesIn(n, running))
             => /\ HasKey
                /\ n.key # NullKey
                /\ n.key = ImportKey(session[SESSION_KEY_CRYPTO])
    ]_vars

\* In LOCKED, after the save of the long codes, a get() has returned null
\* having read the session store only.
C16_Witness ==
  /\ Locked
  /\ saved = LongCodesSave
  /\ event.op = "get"
  /\ event.val = Null
  /\ event.reads = {"session"}

\* The operation n is in flight after the step in one more copy than before.
Entered(n) == CopiesIn(n, running') > CopiesIn(n, running)

\* C17: in main() of the content script the form is filled only by the
\* timer that a non-null GET_CREDENTIALS response started, with the record
\* of that response; GET_SAVED_CODES is sent only when GET_CREDENTIALS was
\* answered null, and its answer ends main() with no fill; and on a
\* timeout-error page or a 500-error page main() redirects to the login page
\* and sends no message, whether the page has a login form or not.
C17_FillOnlyAfterCredentials ==
  [][ /\ event'.op = "fillAndSubmit"
           => \E o \in Ops :
                /\ o.pc = "cs_timer"
                /\ running' = Finish(o)
                /\ event'.val = o.args
                /\ o.args.type = "credentials"
      /\ \A n \in BagToSet(running') :
           (n.pc = "cs_timer" /\ Entered(n))
             => \E o \in Ops :
                  /\ o.pc = "cs_bg_local"
                  /\ running' = Becomes(o, n)
                  /\ getCredentialsWithKey(o.key) # Null
                  /\ n.args = getCredentialsWithKey(o.key)
      /\ \A n \in BagToSet(running') :
           (n.pc = "cs_codes" /\ Entered(n))
             => \E o \in Ops :
                  /\ running' = Becomes(o, n)
                  /\ \/ o.pc = "cs_credentials" /\ getCredentials = Null
                     \/ o.pc = "cs_credentials" /\ ~isValidSender(LoginSender)
                     \/ o.pc = "cs_bg_local" /\ getCredentialsWithKey(o.key) = Null
      /\ \A o \in Ops :
           (o.pc = "cs_codes" /\ CopiesIn(o, running') < CopiesIn(o, running)
              /\ event'.op # "sessionEnd")
             => (event' = MainEnded /\ running' = Finish(o))
      /\ \A page \in Pages :
           ((page.timeout \/ page.error500) /\ ContentMain(page))
             => (event' = Redirected /\ running' = running)
      /\ \A n \in BagToSet(running') :
           (n.pc = "cs_credentials" /\ Entered(n))
             => (running' = Start(n)
                   /\ ContentMain([timeout |-> FALSE, error500 |-> FALSE, login |-> TRUE]))
    ]_vars

\* The form has been filled with the record of the last save, which the
\* service worker decrypted for the page.
C17_Witness ==
  /\ event.op = "fillAndSubmit"
  /\ event.val.type = "credentials"
  /\ event.val.companyCode = saved.companyCode
  /\ saved # NoArgs

\* C18: whenever a key is in the session store and a ciphertext is in the
\* durable store, the ciphertext was made with that key and the stored
\* nonce, so that with a key and the four fields present get() returns a
\* record, at every point of every interleaving of save() and clear().
C18_KeyAndBlobCoherent ==
  (HasKey /\ STORAGE_KEY_PASSWORD \in DOMAIN local /\ STORAGE_KEY_IV \in DOMAIN local)
    => /\ AesGcmOpens(local[STORAGE_KEY_PASSWORD], local[STORAGE_KEY_IV],
                      ImportKey(session[SESSION_KEY_CRYPTO]))
       /\ HasFields => get # Null

\* C19: in every reachable state of the two stores the service worker's
\* getCredentials() returns what CredentialManager.get() returns and its
\* getSavedCodes() returns what CredentialManager.getSavedCodes() returns,
\* also for a reader that holds a key read earlier; and the service worker's
\* five key names are the five of CredentialManager.
C19_ReadersAgree ==
  /\ getCredentials = get
  /\ bgGetSavedCodes = getSavedCodes
  /\ bgGetCryptoKey = getCryptoKey
  /\ \A k \in KeyNames : getCredentialsWithKey(k) = getWithKey(k)
  /\ BG_STORAGE_KEY_COMPANY = STORAGE_KEY_COMPANY
  /\ BG_STORAGE_KEY_EMPLOYEE = STORAGE_KEY_EMPLOYEE
  /\ BG_STORAGE_KEY_PASSWORD = STORAGE_KEY_PASSWORD
  /\ BG_STORAGE_KEY_IV = STORAGE_KEY_IV
  /\ BG_SESSION_KEY_CRYPTO = SESSION_KEY_CRYPTO

\* The password that starts with U+FEFF is stored and its key is resident:
\* both readers return a record, and the same one.
C19_Witness ==
  /\ saved = LongCodesSave
  /\ HasKey
  /\ get # Null
  /\ getCredentials = get
  /\ getSavedCodes = Codes(saved.companyCode, saved.employeeCode)

\* A GET_CREDENTIALS message is with the service worker, not answered yet.
Pending(o) == o \in Ops

\* C20: the listener answers every GET_CREDENTIALS and GET_SAVED_CODES
\* message of every sender once: a denied sender is answered null in the
\* listener itself, which returns false; an allowed one is answered by the
\* reader the listener started, either in the same step or by the reader
\* left in flight, and the listener returns true in exactly these cases; a
\* reader in flight answers in the step that ends it, so no message is
\* answered twice; and while a reader is in flight an answer to a
\* GET_CREDENTIALS message follows in the end, unless the session ends
\* first.
C20_EveryMessageAnsweredOnce ==
  /\ [][ /\ \A type \in {"GET_CREDENTIALS", "GET_SAVED_CODES"}, sender \in Senders :
              OnMessage(type, sender)
                => /\ listenerReturns(type, sender) = "false"
                        => (event' = Returned("onMessage", Null, {})
                              /\ running' = running)
                   /\ listenerReturns(type, sender) = "true"
                        => \/ event'.op = type /\ running' = running
                           \/ /\ event' = NoEvent
                              /\ \E n \in BgReaders : running' = Start(n)
                   /\ listenerReturns(type, sender) \in {"true", "false"}
                   /\ listenerReturns(type, sender) = "true" <=> isValidSender(sender)
         /\ \A o \in BgReaders :
              (CopiesIn(o, running') < CopiesIn(o, running) /\ event'.op # "sessionEnd")
                => /\ running' = Finish(o)
                   /\ event'.op = "GET_CREDENTIALS"
         /\ (event'.op = "GET_CREDENTIALS" /\ running' # running)
              => \E o \in BgReaders : o \in Ops /\ running' = Finish(o)
       ]_vars
  /\ \A o \in BgReaders :
       Pending(o) ~> (event.op \in {"GET_CREDENTIALS", "sessionEnd"})

\* A GET_CREDENTIALS message of the login page has been answered with the
\* record by the reader that was left in flight.
C20_Witness ==
  /\ event.op = "GET_CREDENTIALS"
  /\ event.val # Null
  /\ event.reads = {"session", "local"}
  /\ event.val = getCredentials

\* The step is one of the save() that o is, and it is not the write with
\* which a save() returns true.
FailingSaveStep(o) ==
  /\ o.pc \in {"save_generate", "save_encrypt"}
  /\ CopiesIn(o, running') < CopiesIn(o, running)
  /\ event'.op # "sessionEnd"
  /\ ~(event'.op = "save" /\ event'.val = Boolean(TRUE))

\* C21: a save() that returns false has written nothing to the durable
\* store: the step in which save() returns false (a rejected input, or a
\* key generation, an encryption or a store call that failed) leaves both
\* stores as they are, and every earlier step of a save() other than the
\* write that returns true leaves the durable store as it is; all such a
\* save() can have changed is the session store, by the key it made.
C21_FailedSaveLeavesFields ==
  [][ /\ (event'.op = "save" /\ event'.val = Boolean(FALSE))
           => (local' = local /\ session' = session)
      /\ \A in \in SaveInputs :
           SaveCall(in) => (local' = local /\ session' = session)
      /\ \A o \in Ops :
           FailingSaveStep(o)
             => /\ local' = local
                /\ session' # session
                     => /\ o.pc = "save_generate"
                        /\ ~event'.threw
                        /\ \E k \in KeyNames :
                             /\ session' = getOrCreateCryptoKeyStore(k)
                             /\ running' = Becomes(o, Op("save_encrypt", o.args, k))
    ]_vars

\* A save() made in LOCKED has failed after it made its key: the key is in
\* the session store, and the four fields are those of the save before,
\* their ciphertext closed to the new key.
C21_Witness ==
  /\ event = Caught("save")
  /\ HasKey
  /\ HasFields
  /\ FieldsOfOneSave
  /\ ~AesGcmOpens(local[STORAGE_KEY_PASSWORD], local[STORAGE_KEY_IV],
                  ImportKey(session[SESSION_KEY_CRYPTO]))

====
